---------------------------- MODULE Spec2Model ----------------------------
(* The audit-trail recorder of src/lib/audit.rs: AuditScope, AuditEvent,  *)
(* AuditLog, the audit_log! and audit_segment! macros, the Display impl   *)
(* and the derived serde Serialize / Deserialize implementations.         *)
EXTENDS Integers, Sequences, FiniteSets, TLC

(* ------------------------------ bounds -------------------------------- *)
MaxScopes == 2
MaxTime == 4
MaxInstant == 1

Slots == 1..MaxScopes
Names == {"op", "sub"}
Messages == {"start"}
MaxElapsed == 1

(* ----------------------- strings and timestamps ----------------------- *)
Digits == <<"0", "1", "2", "3", "4", "5", "6", "7", "8", "9">>

RECURSIVE DisplayInt(_)
\* Display of an unsigned integer: its decimal digits, most significant first.
DisplayInt(n) ==
    IF n < 10 THEN Digits[n + 1] ELSE DisplayInt(n \div 10) \o Digits[(n % 10) + 1]

\* DateTime<Utc>::to_rfc3339 of the instant t seconds after the epoch (t < 60).
to_rfc3339(t) ==
    "1970-01-01T00:00:" \o Digits[(t \div 10) + 1] \o Digits[(t % 10) + 1] \o "+00:00"

(* ----------------------------- data model ----------------------------- *)
None == [some |-> FALSE]
Some(d) == [some |-> TRUE, val |-> d]

\* AuditEvent::log(AuditLog) and AuditEvent::scope(AuditScope)
AuditLog(time, name) == [time |-> time, name |-> name]
EventLog(l) == [tag |-> "log", log |-> l]
EventScope(s) == [tag |-> "scope", scope |-> s]

\* AuditScope { time, name, duration, events }
AuditScope(time, name, duration, events) ==
    [time |-> time, name |-> name, duration |-> duration, events |-> events]

\* new as it would be if it started the scope with a zero duration.
new_zero_duration(name, t) ==
    AuditScope(to_rfc3339(t), name, Some([secs |-> 0, nanos |-> 0]), <<>>)

\* AuditScope::new, with t the value SystemTime::now() returned.
new(name, t) == AuditScope(to_rfc3339(t), name, None, <<>>)

\* append_scope as it would be if it spliced the child's events into the parent.
append_scope_flat(self, scope) ==
    [self EXCEPT !.events = self.events \o scope.events]

\* append_scope as it would be if it put the child in front of the earlier events.
append_scope_front(self, scope) ==
    [self EXCEPT !.events = <<EventScope(scope)>> \o self.events]

\* AuditScope::append_scope
append_scope(self, scope) ==
    [self EXCEPT !.events = Append(self.events, EventScope(scope))]

\* log_event as it would be if the first event also stamped the scope's time.
log_event_retime(self, data, t) ==
    [self EXCEPT !.events = Append(self.events, EventLog(AuditLog(to_rfc3339(t), data))),
                 !.time = IF self.events = <<>> THEN to_rfc3339(t) ELSE self.time]

\* log_event as it would be if it also stored a duration on the scope.
log_event_closing(self, data, t) ==
    [self EXCEPT !.events = Append(self.events, EventLog(AuditLog(to_rfc3339(t), data))),
                 !.duration = Some([secs |-> t, nanos |-> 0])]

\* AuditScope::log_event, with t the value SystemTime::now() returned.
log_event(self, data, t) ==
    [self EXCEPT !.events = Append(self.events, EventLog(AuditLog(to_rfc3339(t), data)))]

(* ------------------------------ audit_log! ---------------------------- *)
\* A format template is a sequence of pieces: literal text, or a "{}"
\* placeholder that takes the next argument.
Lit(text) == [kind |-> "lit", text |-> text]
Arg == [kind |-> "arg", text |-> "{}"]

RECURSIVE FormatFrom(_, _, _, _)
\* The pieces from the k-th on, with the a-th argument the next one to take.
FormatFrom(tpl, args, k, a) ==
    IF k > Len(tpl) THEN ""
    ELSE IF tpl[k].kind = "lit"
         THEN tpl[k].text \o FormatFrom(tpl, args, k + 1, a)
         ELSE DisplayInt(args[a]) \o FormatFrom(tpl, args, k + 1, a + 1)

\* fmt::format(format_args!(tpl, args...))
format(tpl, args) == FormatFrom(tpl, args, 1, 1)

\* audit_log! as it would be if the log_event call sat inside the debug block.
audit_log_debug_only(audit, tpl, args, debug, t) ==
    [audit |-> IF debug THEN log_event(audit, format(tpl, args), t) ELSE audit,
     stdout |-> IF debug THEN "DEBUG AUDIT -> " \o format(tpl, args) \o "\n" ELSE ""]

\* The audit_log! macro: the debug echo (in test and debug builds), then
\* $audit.log_event(fmt::format(format_args!(...))).
audit_log(audit, tpl, args, debug, t) ==
    [audit |-> log_event(audit, format(tpl, args), t),
     stdout |-> IF debug THEN "DEBUG AUDIT -> " \o format(tpl, args) \o "\n" ELSE ""]

(* ---------------------------- audit_segment! -------------------------- *)
Ok(v) == [kind |-> "Ok", val |-> v]
Err(e) == [kind |-> "Err", val |-> e]

\* Instant::duration_since
duration_since(end, start) == [secs |-> end - start, nanos |-> 0]

RECURSIVE LogAll(_, _, _, _)
\* au.log_event(msgs[k]); au.log_event(msgs[k + 1]); ... with the clock at t
LogAll(au, msgs, k, t) ==
    IF k > Len(msgs) THEN au
    ELSE LogAll(log_event(au, msgs[k], t), msgs, k + 1, t + 1)

\* One invocation of the unit of work fun on the scope au, begun at instant
\* begin: the work records fun.logs on au, takes fun.elapsed, and then returns
\* fun.outcome or panics.
Invoke(fun, au, begin, t) ==
    [au |-> LogAll(au, fun.logs, 1, t),
     begin |-> begin,
     end |-> begin + fun.elapsed,
     panicked |-> fun.outcome.kind = "panic",
     r |-> fun.outcome]

\* audit_segment! as it would be if the expansion evaluated $fun() twice.
audit_segment_twice(au, fun, clock, t) ==
    LET start == clock
        first == Invoke(fun, au, clock, t)
        run == Invoke(fun, first.au, first.end, t + Len(fun.logs))
        end == run.end
        diff == duration_since(end, start)
        runs == <<[begin |-> first.begin, end |-> first.end],
                  [begin |-> run.begin, end |-> run.end]>>
    IN  [au |-> run.au,
         seg |-> IF run.panicked
                 THEN [status |-> "unwound", start |-> start, runs |-> runs]
                 ELSE [status |-> "returned", start |-> start, end |-> end,
                       diff |-> diff, r |-> run.r, runs |-> runs]]

\* The audit_segment! macro with the scope au and the unit of work fun; clock is
\* what Instant::now() reads on entry and t the wall clock. The result is the
\* scope afterwards and what the expansion computed: r is its value.
audit_segment(au, fun, clock, t) ==
    LET start == clock
        run == Invoke(fun, au, clock, t)
        end == run.end
        diff == duration_since(end, start)
        runs == <<[begin |-> run.begin, end |-> run.end]>>
    IN  [au |-> run.au,
         seg |-> IF run.panicked
                 THEN [status |-> "unwound", start |-> start, runs |-> runs]
                 ELSE [status |-> "returned", start |-> start, end |-> end,
                       diff |-> diff, r |-> run.r, runs |-> runs]]

(* ------------------------ serde_json documents ------------------------ *)
JNull == [t |-> "null"]
JStr(x) == [t |-> "str", v |-> x]
JNum(n) == [t |-> "num", v |-> n]
JArr(xs) == [t |-> "arr", v |-> xs]
\* An object is the sequence of its members, in the order they were written.
JObj(members) == [t |-> "obj", v |-> members]
Member(key, value) == [k |-> key, v |-> value]

Keys(obj, key) == {i \in 1..Len(obj.v) : obj.v[i].k = key}
Has(obj, key) == Keys(obj, key) # {}
Get(obj, key) == obj.v[CHOOSE i \in Keys(obj, key) : TRUE].v

(* ------------------------- #[derive(Serialize)] ----------------------- *)
\* std::time::Duration serializes as the struct { secs, nanos }.
SerDuration(d) == JObj(<<Member("secs", JNum(d.secs)), Member("nanos", JNum(d.nanos))>>)

\* Option<Duration>: None is null, Some(d) is d.
SerOption(o) == IF o.some THEN SerDuration(o.val) ELSE JNull

\* struct AuditLog { time, name }
SerLog(l) == JObj(<<Member("time", JStr(l.time)), Member("name", JStr(l.name))>>)

RECURSIVE SerScope(_)
\* enum AuditEvent { log(AuditLog), scope(AuditScope) }, externally tagged.
SerEvent(e) ==
    IF e.tag = "log"
    THEN JObj(<<Member("log", SerLog(e.log))>>)
    ELSE JObj(<<Member("scope", SerScope(e.scope))>>)

\* SerScope as it would be with skip_serializing_if = "Vec::is_empty" on events.
SerScope_skip_empty(s) ==
    JObj(<<Member("time", JStr(s.time)),
           Member("name", JStr(s.name)),
           Member("duration", SerOption(s.duration))>>
         \o (IF s.events = <<>> THEN <<>>
             ELSE <<Member("events",
                           JArr([i \in 1..Len(s.events) |-> SerEvent(s.events[i])]))>>))

\* struct AuditScope { time, name, duration, events }
SerScope(s) ==
    JObj(<<Member("time", JStr(s.time)),
           Member("name", JStr(s.name)),
           Member("duration", SerOption(s.duration)),
           Member("events", JArr([i \in 1..Len(s.events) |-> SerEvent(s.events[i])]))>>)

\* serde_json::to_string_pretty(&scope): the document, or the serializer's
\* error when it reports one.
to_string_pretty(s, fault) == IF fault THEN Err("serde_json::Error") ELSE Ok(SerScope(s))

(* ------------------------ #[derive(Deserialize)] ---------------------- *)
Fail == [ok |-> FALSE]
Done(x) == [ok |-> TRUE, val |-> x]

IsObj(j) == j.t = "obj"
\* A struct field that must be present exactly once with a value of type ty.
Field(j, key, ty) == Cardinality(Keys(j, key)) = 1 /\ Get(j, key).t = ty

DeDuration(j) ==
    IF IsObj(j) /\ Field(j, "secs", "num") /\ Field(j, "nanos", "num")
    THEN Done([secs |-> Get(j, "secs").v, nanos |-> Get(j, "nanos").v])
    ELSE Fail

\* Option<Duration>: a missing or null member is None.
DeOption(j) ==
    IF ~Has(j, "duration") THEN Done(None)
    ELSE IF Cardinality(Keys(j, "duration")) # 1 THEN Fail
    ELSE IF Get(j, "duration").t = "null" THEN Done(None)
    ELSE LET d == DeDuration(Get(j, "duration"))
         IN  IF d.ok THEN Done(Some(d.val)) ELSE Fail

DeLog(j) ==
    IF IsObj(j) /\ Field(j, "time", "str") /\ Field(j, "name", "str")
    THEN Done(AuditLog(Get(j, "time").v, Get(j, "name").v))
    ELSE Fail

RECURSIVE DeScope(_)
\* An externally tagged variant is an object with the variant's name as its
\* only member.
DeEvent(j) ==
    IF ~(IsObj(j) /\ Len(j.v) = 1) THEN Fail
    ELSE IF j.v[1].k = "log"
         THEN LET l == DeLog(j.v[1].v) IN IF l.ok THEN Done(EventLog(l.val)) ELSE Fail
    ELSE IF j.v[1].k = "scope"
         THEN LET c == DeScope(j.v[1].v) IN IF c.ok THEN Done(EventScope(c.val)) ELSE Fail
    ELSE Fail

DeScope(j) ==
    IF ~(IsObj(j) /\ Field(j, "time", "str") /\ Field(j, "name", "str")
                  /\ Field(j, "events", "arr"))
    THEN Fail
    ELSE LET d == DeOption(j)
             arr == Get(j, "events").v
             es == [i \in 1..Len(arr) |-> DeEvent(arr[i])]
         IN  IF d.ok /\ \A i \in 1..Len(arr) : es[i].ok
             THEN Done(AuditScope(Get(j, "time").v, Get(j, "name").v, d.val,
                                  [i \in 1..Len(arr) |-> es[i].val]))
             ELSE Fail

\* serde_json::from_str::<AuditScope> of a rendered document.
from_str(doc) == DeScope(doc)

(* ------------------------------ Display -------------------------------- *)
\* impl fmt::Display for AuditScope: to_string_pretty(self).unwrap(), then
\* write!(f, "{}", d) into the caller's formatter, whose write may fail.
fmt(self, fault, wfail) ==
    LET d == to_string_pretty(self, fault)
    IN  IF d.kind = "Err" THEN [status |-> "panic"]
        ELSE IF wfail THEN [status |-> "Err"]
        ELSE [status |-> "Ok", written |-> d.val]

(* ------------------------------- inputs ------------------------------- *)
\* The audit_log! invocations of the call sites: a template and its arguments.
FormatCalls == {[tpl |-> <<Lit("id="), Arg>>, args |-> <<42>>]}

\* The units of work handed to audit_segment!: what they record, how long they
\* take, and whether they return Ok, return Err or panic.
Works == {[logs |-> <<>>, elapsed |-> 0, outcome |-> Ok("done")],
          [logs |-> <<"start">>, elapsed |-> MaxElapsed, outcome |-> Err("denied")],
          [logs |-> <<"start">>, elapsed |-> 0, outcome |-> [kind |-> "panic"]]}

\* What can go wrong while Display::fmt runs: the serializer reports an error,
\* or the write into the caller's formatter does.
Faults == {[fault |-> FALSE, wfail |-> FALSE],
           [fault |-> FALSE, wfail |-> TRUE],
           [fault |-> TRUE, wfail |-> FALSE]}

(* ------------------------------- state -------------------------------- *)
VARIABLES
    now,      \* the wall clock read by SystemTime::now(), in seconds
    scopes,   \* the AuditScope values the call chain owns, by slot
    created,  \* per owned scope, the name and clock reading given to new
    calls,    \* per owned scope, the log_event / append_scope calls made on it
    ret       \* what the most recent call handed back to its caller

vars == <<now, scopes, created, calls, ret>>

Live == DOMAIN scopes

Init ==
    /\ now = 0
    /\ scopes = << >>
    /\ created = << >>
    /\ calls = << >>
    /\ ret = [op |-> "none"]

\* SystemTime::now() was read n times: every reading is later than the one
\* before it, and the model stops reading the clock at MaxTime.
ClockRead(n) ==
    /\ now + n <= MaxTime
    /\ now' = now + n

Put(f, i, v) == [j \in (DOMAIN f) \cup {i} |-> IF j = i THEN v ELSE f[j]]
Drop(f, i) == [j \in (DOMAIN f) \ {i} |-> f[j]]

\* let mut au = AuditScope::new(name);
New(name) ==
    /\ Live # Slots
    /\ LET i == CHOOSE j \in Slots \ Live : \A k \in Slots \ Live : j <= k
       IN  /\ scopes' = Put(scopes, i, new(name, now))
           /\ created' = Put(created, i, [name |-> name, t |-> now])
           /\ calls' = Put(calls, i, <<>>)
           /\ ret' = [op |-> "new", au |-> i]
    /\ ClockRead(1)

\* au.log_event(data);
LogEvent(i, data) ==
    /\ i \in Live
    /\ scopes' = [scopes EXCEPT ![i] = log_event(@, data, now)]
    /\ calls' = [calls EXCEPT ![i] = Append(@, [op |-> "log_event", data |-> data])]
    /\ ret' = [op |-> "log_event", au |-> i]
    /\ ClockRead(1)
    /\ UNCHANGED created

\* parent.append_scope(child); the child is moved into the parent.
AppendScope(p, c) ==
    /\ p \in Live
    /\ c \in Live
    /\ p # c
    /\ scopes' = Drop([scopes EXCEPT ![p] = append_scope(@, scopes[c])], c)
    /\ calls' = Drop([calls EXCEPT ![p] =
                        Append(@, [op |-> "append_scope", scope |-> scopes[c]])], c)
    /\ created' = Drop(created, c)
    /\ ret' = [op |-> "append_scope", au |-> p]
    /\ UNCHANGED now

\* audit_log!(au, tpl, args...); debug is cfg!(test) || cfg!(debug_assertions),
\* which the build fixes: both builds are covered.
AuditLogMacro(i, call, debug) ==
    /\ i \in Live
    /\ LET m == audit_log(scopes[i], call.tpl, call.args, debug, now)
       IN  /\ scopes' = [scopes EXCEPT ![i] = m.audit]
           /\ ret' = [op |-> "audit_log", au |-> i, call |-> call, stdout |-> m.stdout]
    /\ calls' = [calls EXCEPT ![i] = Append(@, [op |-> "audit_log", call |-> call])]
    /\ ClockRead(1)
    /\ UNCHANGED created

\* let r = audit_segment!(au, fun); the work records fun.logs on au.
AuditSegment(i, fun, clock) ==
    /\ i \in Live
    /\ LET m == audit_segment(scopes[i], fun, clock, now)
       IN  /\ scopes' = [scopes EXCEPT ![i] = m.au]
           /\ ret' = [op |-> "audit_segment", au |-> i, fun |-> fun, seg |-> m.seg]
    /\ calls' = [calls EXCEPT ![i] =
                    @ \o [k \in 1..Len(fun.logs) |->
                            [op |-> "log_event", data |-> fun.logs[k]]]]
    /\ ClockRead(Len(fun.logs))
    /\ UNCHANGED created

\* let d = serde_json::to_string_pretty(&au);
ToStringPretty(i, fault) ==
    /\ i \in Live
    /\ ret' = [op |-> "to_string_pretty", au |-> i, fault |-> fault,
               d |-> to_string_pretty(scopes[i], fault)]
    /\ UNCHANGED <<now, scopes, created, calls>>

\* write!(w, "{}", au), format!("{}", au), println!("{}", au): Display::fmt
DisplayFmt(i, fault, wfail) ==
    /\ i \in Live
    /\ ret' = [op |-> "fmt", au |-> i, fault |-> fault, wfail |-> wfail,
               out |-> fmt(scopes[i], fault, wfail)]
    /\ UNCHANGED <<now, scopes, created, calls>>

Next ==
    \/ \E name \in Names : New(name)
    \/ \E i \in Slots, data \in Messages : LogEvent(i, data)
    \/ \E p \in Slots, c \in Slots : AppendScope(p, c)
    \/ \E i \in Slots, call \in FormatCalls, debug \in BOOLEAN : AuditLogMacro(i, call, debug)
    \/ \E i \in Slots, fun \in Works, clock \in {0, MaxInstant} : AuditSegment(i, fun, clock)
    \/ \E i \in Slots, fault \in BOOLEAN : ToStringPretty(i, fault)
    \/ \E i \in Slots, f \in Faults : DisplayFmt(i, f.fault, f.wfail)

\* The whole recorder: every operation, in any order.
Spec == Init /\ [][Next]_vars

\* The recorder protocol alone: scopes are built and logged to, directly and
\* through audit_log!.
NextRecorder ==
    \/ \E name \in Names : New(name)
    \/ \E i \in Slots, data \in Messages : LogEvent(i, data)
    \/ \E p \in Slots, c \in Slots : AppendScope(p, c)
    \/ \E i \in Slots, call \in FormatCalls, debug \in BOOLEAN : AuditLogMacro(i, call, debug)

SpecRecorder == Init /\ [][NextRecorder]_vars

\* The recorder protocol with units of work run under audit_segment!.
NextTimed ==
    \/ \E name \in Names : New(name)
    \/ \E i \in Slots, data \in Messages : LogEvent(i, data)
    \/ \E p \in Slots, c \in Slots : AppendScope(p, c)
    \/ \E i \in Slots, fun \in Works, clock \in {0, MaxInstant} : AuditSegment(i, fun, clock)

SpecTimed == Init /\ [][NextTimed]_vars

\* Scopes built with new, log_event and append_scope only, and rendered at any
\* point: audit_segment! is never invoked.
NextRender ==
    \/ \E name \in Names : New(name)
    \/ \E i \in Slots, data \in Messages : LogEvent(i, data)
    \/ \E p \in Slots, c \in Slots : AppendScope(p, c)
    \/ \E i \in Slots, fault \in BOOLEAN : ToStringPretty(i, fault)
    \/ \E i \in Slots, f \in Faults : DisplayFmt(i, f.fault, f.wfail)

SpecRender == Init /\ [][NextRender]_vars

(* ============================== claims ================================ *)
\* C1: on every owned scope the events sequence has exactly one entry per
\* log_event / append_scope call made on it (audit_log! being a log_event call),
\* and the k-th entry is the one the k-th call produced: a log entry with that
\* call's message, or a scope entry holding that call's child.
C1_AppendOrder ==
    \A i \in Live :
        /\ Len(scopes[i].events) = Len(calls[i])
        /\ \A k \in 1..Len(calls[i]) :
              LET c == calls[i][k]
                  e == scopes[i].events[k]
              IN  /\ c.op = "log_event" => e.tag = "log" /\ e.log.name = c.data
                  /\ c.op = "audit_log" => e.tag = "log"
                  /\ c.op = "append_scope" => e.tag = "scope" /\ e.scope = c.scope

\* A scope on which log_event, append_scope and log_event were called, in
\* this order.
C1_Witness ==
    \E i \in Live :
        /\ Len(calls[i]) = 3
        /\ calls[i][1].op = "log_event"
        /\ calls[i][2].op = "append_scope"
        /\ calls[i][3].op = "log_event"

\* C4: a step that moves a child scope c into a parent p adds exactly one entry
\* to p's events, tagged scope and holding c as it was (its events in their
\* order, with their contents); and no step changes an entry that a scope
\* already holds, so a child's subtree stays as appended.
C4_Nesting ==
    [][/\ \A p \in Live \cap DOMAIN scopes' :
             /\ Len(scopes'[p].events) >= Len(scopes[p].events)
             /\ \A k \in 1..Len(scopes[p].events) :
                   scopes'[p].events[k] = scopes[p].events[k]
       /\ \A c \in Live \ DOMAIN scopes' :
             \E p \in DOMAIN scopes' :
                 scopes'[p].events =
                     Append(scopes[p].events, [tag |-> "scope", scope |-> scopes[c]])]_vars

\* A parent holding a child scope that has an event of its own, followed by a
\* later entry of the parent.
C4_Witness ==
    \E p \in Live :
        \E k \in 1..Len(scopes[p].events) :
            /\ scopes[p].events[k].tag = "scope"
            /\ Len(scopes[p].events[k].scope.events) >= 1
            /\ k < Len(scopes[p].events)

\* C10: a step of audit_log! on a scope appends exactly one entry to its events,
\* a log entry whose name is the formatted message, and changes neither an
\* earlier entry, nor the scope's time, name and duration, nor another scope.
C10_AuditLog ==
    [][ret'.op = "audit_log" =>
         LET i == ret'.au
             e == scopes'[i].events[Len(scopes'[i].events)]
         IN  /\ Len(scopes'[i].events) = Len(scopes[i].events) + 1
             /\ SubSeq(scopes'[i].events, 1, Len(scopes[i].events)) = scopes[i].events
             /\ e.tag = "log"
             /\ e.log.name = format(ret'.call.tpl, ret'.call.args)
             /\ scopes'[i].duration = scopes[i].duration
             /\ scopes'[i].time = scopes[i].time
             /\ scopes'[i].name = scopes[i].name
             /\ \A j \in Live \ {i} : scopes'[j] = scopes[j]]_vars

\* audit_log!(au, "id={}", 42) has just recorded "id=42" after an earlier entry.
C10_Witness ==
    /\ ret.op = "audit_log"
    /\ Len(scopes[ret.au].events) >= 2
    /\ scopes[ret.au].events[Len(scopes[ret.au].events)].tag = "log"
    /\ scopes[ret.au].events[Len(scopes[ret.au].events)].log.name = "id=42"

\* C2: once audit_segment! has returned for a scope, whether the work returned
\* Ok or Err, that scope's duration is present and not negative.
C2_DurationRecorded ==
    (ret.op = "audit_segment" /\ ret.seg.status = "returned") =>
        /\ scopes[ret.au].duration.some
        /\ scopes[ret.au].duration.val.secs >= 0
        /\ scopes[ret.au].duration.val.nanos >= 0

\* C3: audit_segment! runs the work exactly once, not before the start instant
\* is taken and, when the work returns, not after the end instant is taken;
\* what the work recorded is on the scope once; and the value of the expansion
\* is exactly the value the work returned, Ok or Err.
C3_Transparent ==
    ret.op = "audit_segment" =>
        /\ Len(ret.seg.runs) = 1
        /\ ret.seg.start <= ret.seg.runs[1].begin
        /\ Len(scopes[ret.au].events) = Len(calls[ret.au])
        /\ ret.seg.status = "returned" =>
              /\ ret.seg.runs[1].end <= ret.seg.end
              /\ ret.seg.r = ret.fun.outcome

\* audit_segment! has returned the Err of a work that took some time.
C3_Witness ==
    /\ ret.op = "audit_segment"
    /\ ret.seg.status = "returned"
    /\ ret.seg.r = [kind |-> "Err", val |-> "denied"]
    /\ ret.seg.end > ret.seg.start

\* C6: for every owned scope, at any nesting depth the model reaches, parsing
\* the rendered document gives back a scope equal to the original (same tree,
\* same time, name and duration at every node, same tags, same order), and
\* rendering that scope gives the same document again.
C6_RoundTrip ==
    \A i \in Live :
        LET d == to_string_pretty(scopes[i], FALSE)
            back == from_str(d.val)
        IN  /\ d.kind = "Ok"
            /\ back.ok
            /\ back.val = scopes[i]
            /\ to_string_pretty(back.val, FALSE) = d

\* A scope that audit_segment! ran on, holding a log entry and a child scope
\* that has an entry of its own.
C6_Witness ==
    /\ ret.op = "audit_segment"
    /\ \E k \in 1..Len(scopes[ret.au].events) :
          /\ scopes[ret.au].events[k].tag = "scope"
          /\ scopes[ret.au].events[k].scope.events # <<>>
    /\ \E k \in 1..Len(scopes[ret.au].events) : scopes[ret.au].events[k].tag = "log"

\* C7: every owned scope has the time and the name it was constructed with,
\* whatever log_event, append_scope and audit_segment! did to it since.
C7_TimeNameFixed ==
    \A i \in Live :
        /\ scopes[i].time = to_rfc3339(created[i].t)
        /\ scopes[i].name = created[i].name

\* A scope that audit_segment! ran on, whose first entry is a log entry with a
\* later timestamp than the scope's own.
C7_Witness ==
    /\ ret.op = "audit_segment"
    /\ scopes[ret.au].events # <<>>
    /\ scopes[ret.au].events[1].tag = "log"
    /\ scopes[ret.au].events[1].log.time # scopes[ret.au].time
    /\ scopes[ret.au].time = to_rfc3339(created[ret.au].t)

\* C5: new(name) gives a scope with that name, no duration and no events; and
\* rendering a scope on which nothing was recorded succeeds with an empty
\* events array and a null duration.
C5_Fresh ==
    /\ ret.op = "new" =>
          scopes[ret.au] = [time |-> to_rfc3339(created[ret.au].t),
                            name |-> created[ret.au].name,
                            duration |-> [some |-> FALSE],
                            events |-> <<>>]
    /\ (ret.op = "to_string_pretty" /\ ~ret.fault /\ calls[ret.au] = <<>>) =>
          /\ ret.d.kind = "Ok"
          /\ Get(ret.d.val, "name") = [t |-> "str", v |-> created[ret.au].name]
          /\ Get(ret.d.val, "duration") = [t |-> "null"]
          /\ Get(ret.d.val, "events") = [t |-> "arr", v |-> <<>>]

\* A scope named "sub" on which nothing was recorded has just been rendered.
C5_Witness ==
    /\ ret.op = "to_string_pretty"
    /\ ret.d.kind = "Ok"
    /\ calls[ret.au] = <<>>
    /\ created[ret.au].name = "sub"

\* C8: as long as only new, log_event and append_scope built the scopes, every
\* owned scope has no duration, and rendering it with whatever it holds so far
\* succeeds, with a document that parses as a scope.
C8_NeverTimed ==
    /\ \A i \in Live : ~scopes[i].duration.some
    /\ (ret.op = "to_string_pretty" /\ ~ret.fault) =>
          /\ ret.d.kind = "Ok"
          /\ from_str(ret.d.val).ok
          /\ ~from_str(ret.d.val).val.duration.some

\* A scope holding a log entry and a child scope has just been rendered.
C8_Witness ==
    /\ ret.op = "to_string_pretty"
    /\ ret.d.kind = "Ok"
    /\ \E k \in 1..Len(scopes[ret.au].events) : scopes[ret.au].events[k].tag = "log"
    /\ \E k \in 1..Len(scopes[ret.au].events) : scopes[ret.au].events[k].tag = "scope"

=============================================================================
